---- MODULE Spec2Model ----
(***************************************************************************)
(* Model of the scheduling optimizer of src/solver.py.                     *)
(*                                                                         *)
(* Optimizer.__init__ stores the catalogue; Optimizer.optimize builds a    *)
(* 0/1 program over x (select), u (dayActive) and y (before), hands it to  *)
(* the solving engine and extracts the per-day schedule from the values    *)
(* the engine leaves in the variables.  The engine is modelled by its      *)
(* contract: when the constraint set is satisfiable it returns status      *)
(* Optimal with some assignment that minimises the objective; otherwise    *)
(* it returns status Infeasible and leaves arbitrary 0/1 values.           *)
(***************************************************************************)
EXTENDS Integers, Sequences, FiniteSets, TLC

VARIABLES pc, request, occurrences, travel_distances, buffer_minutes,
          x, u, y, status, result, engine_calls

vars == <<pc, request, occurrences, travel_distances, buffer_minutes,
          x, u, y, status, result, engine_calls>>

----------------------------------------------------------------------------
(* Bounds of the explored inputs *)

MaxKeys == 3
MaxDay == 1

(* minutes per hour, and the length of one day *)
H == 60
DayLen == 24 * H

(* Candidate time slots <<start, end, loc>>, in minutes from the day's   *)
(* origin.  The last one has start >= end: the request layer accepts it,  *)
(* since EventInstanceEntry only fixes the field types.                   *)
Slots ==
  { <<0, 60, "A">>, <<120, 180, "B">>, <<1380, 1440, "A">>,
    <<180, 0, "A">> }

Buffers == {0, 60}

TravelTables ==
  { <<>>,
    [p \in {<<"A", "B">>} |-> 90] }

(* A second input family: two slots one minute apart at the end of the   *)
(* day, one of them a long way from "A".                                  *)
LongTravelSlots ==
  { <<0, 60, "A">>, <<1380, 1440, "B">>, <<1381, 1440, "A">> }

LongTravelTables == { [p \in {<<"A", "B">>} |-> 1100] }

RECURSIVE SumOver(_, _)
SumOver(S, f) ==
  IF S = {} THEN 0
  ELSE LET e == CHOOSE e \in S : TRUE IN f[e] + SumOver(S \ {e}, f)

Max(S) == CHOOSE m \in S : \A n \in S : n <= m

(* sample data's t(day, hh, mm): absolute minutes from the week origin *)
t(day, mm) == day * 24 * H + mm

EventInstanceEntry(event, day, slot) ==
  [event |-> event, day |-> day, start |-> t(day, slot[1]),
   end |-> t(day, slot[2]), loc |-> slot[3]]

(* Event ids and day indices are numbered in order of first appearance:   *)
(* the optimizer only compares them for equality.                         *)
FirstAppearance(f, n, first) ==
  /\ f[1] = first
  /\ \A i \in 2..n : f[i] <= Max({f[j] : j \in 1..(i-1)}) + 1

Catalogues(slots) ==
  UNION { { [k \in 1..n |-> EventInstanceEntry(ev[k], dy[k], sl[k])] :
              ev \in {e \in [1..n -> 1..n] : FirstAppearance(e, n, 1)},
              dy \in {d \in [1..n -> 0..MaxDay] : FirstAppearance(d, n, 0)},
              sl \in [1..n -> slots] } :
          n \in 1..MaxKeys }

Requests(slots, tables) ==
  [occurrences : Catalogues(slots), travel_distances : tables,
   buffer_minutes : Buffers]

----------------------------------------------------------------------------
(* Optimizer.__init__: the derived lists *)

K == [i \in 1..Len(occurrences) |-> i]

Keys == {K[i] : i \in 1..Len(K)}

events == {occurrences[k].event : k \in Keys}

days == {occurrences[k].day : k \in Keys}

same_day_pairs ==
  {p \in Keys \X Keys :
     occurrences[p[1]].day = occurrences[p[2]].day /\ p[1] # p[2]}

(* Big-M: 24 hours *)
M == 24 * H

travel_time(k, m) ==
  LET from_loc == occurrences[k].loc
      to_loc == occurrences[m].loc
  IN IF <<from_loc, to_loc>> \in DOMAIN travel_distances
     THEN travel_distances[<<from_loc, to_loc>>]
     ELSE 0

----------------------------------------------------------------------------
(* Optimizer.optimize: the 0/1 program *)

Assignments ==
  [x : [Keys -> {0, 1}], u : [days -> {0, 1}], y : [same_day_pairs -> {0, 1}]]

(* mutant of Coverage: at most one occurrence per event *)
Coverage_AtMostOne(a) ==
  \A i \in events :
    SumOver({k \in Keys : occurrences[k].event = i}, a.x) <= 1

(* 1) exactly one occurrence per event *)
Coverage(a) ==
  \A i \in events :
    SumOver({k \in Keys : occurrences[k].event = i}, a.x) = 1

(* 2) a day is active when an occurrence on it is chosen *)
DayActivation(a) ==
  \A d \in days : \A k \in Keys :
    occurrences[k].day = d => a.x[k] <= a.u[d]

(* 3) an ordering variable is linked to both selections *)
Linking(a) ==
  \A p \in same_day_pairs : a.y[p] <= a.x[p[1]] /\ a.y[p] <= a.x[p[2]]

(* mutant of OneDirection: only the "at most one direction" half *)
OneDirection_AtMostOne(a) ==
  \A p \in {q \in same_day_pairs : q[1] < q[2]} :
    a.y[p] + a.y[<<p[2], p[1]>>] <= 1

(* if both are chosen, exactly one direction is active *)
OneDirection(a) ==
  \A p \in {q \in same_day_pairs : q[1] < q[2]} :
    LET k == p[1]
        m == p[2]
    IN /\ a.y[<<k, m>>] + a.y[<<m, k>>] >= a.x[k] + a.x[m] - 1
       /\ a.y[<<k, m>>] + a.y[<<m, k>>] <= 1

(* time feasibility with big-M *)
TimeFeasible(a) ==
  \A p \in same_day_pairs :
    LET ok == occurrences[p[1]]
        om == occurrences[p[2]]
    IN om.start >= ok.end + travel_time(p[1], p[2]) + buffer_minutes
                     - M * (1 - a.y[p])

Constraints(a) ==
  /\ Coverage(a)
  /\ DayActivation(a)
  /\ Linking(a)
  /\ OneDirection(a)
  /\ TimeFeasible(a)

W1 == 1000000
W2 == 1000
W3 == 1

gap_cost(a) ==
  SumOver(same_day_pairs,
          [p \in same_day_pairs |->
             a.y[p] * (occurrences[p[2]].start - occurrences[p[1]].end)])

travel_cost(a) ==
  SumOver(same_day_pairs,
          [p \in same_day_pairs |-> a.y[p] * travel_time(p[1], p[2])])

obj(a) ==
  W1 * SumOver(days, a.u) + W2 * gap_cost(a) + W3 * travel_cost(a)

(* The solving engine: the status and the values it leaves behind. *)
Solve ==
  LET feasible == {a \in Assignments : Constraints(a)}
      cost == [a \in feasible |-> obj(a)]
  IN IF feasible # {}
     THEN {[status |-> "Optimal", values |-> a] :
             a \in {b \in feasible : \A c \in feasible : cost[b] <= cost[c]}}
     ELSE {[status |-> "Infeasible", values |-> a] : a \in Assignments}

----------------------------------------------------------------------------
(* Optimizer.optimize: processing the solution *)

chosen(a) == SelectSeq(K, LAMBDA k : a.x[k] = 1)

todays(a, d) == SelectSeq(chosen(a), LAMBDA k : occurrences[k].day = d)

Range(s) == {s[i] : i \in 1..Len(s)}

before_count(a, d) ==
  [m \in Range(todays(a, d)) |->
     Cardinality({k \in Range(todays(a, d)) :
                    k # m /\ <<k, m>> \in same_day_pairs /\ a.y[<<k, m>>] = 1})]

(* sorted(seq, key): Python's stable sort, by insertion *)
RECURSIVE sorted(_, _)
sorted(seq, key) ==
  IF seq = <<>> THEN <<>>
  ELSE LET n == Len(seq)
           last == seq[n]
           rest == sorted(SubSeq(seq, 1, n - 1), key)
           keep == SelectSeq(rest, LAMBDA e : key[e] <= key[last])
           move == SelectSeq(rest, LAMBDA e : key[e] > key[last])
       IN keep \o <<last>> \o move

ordered(a, d) == sorted(todays(a, d), before_count(a, d))

schedule(a) ==
  [d \in {e \in days : todays(a, e) # <<>>} |-> ordered(a, d)]

days_used(a) == Cardinality({d \in days : a.u[d] = 1})

Result(sol) ==
  [schedule |-> schedule(sol.values),
   days_used |-> days_used(sol.values),
   chosen_occurrences |-> chosen(sol.values),
   status |-> sol.status]

----------------------------------------------------------------------------
(* The run: a request is turned into an Optimizer, which is optimized once *)

NoResult == [status |-> "none"]

InitWith(requests) ==
  /\ pc = "request"
  /\ request \in requests
  /\ occurrences = <<>>
  /\ travel_distances = <<>>
  /\ buffer_minutes = 0
  /\ x = <<>>
  /\ u = <<>>
  /\ y = <<>>
  /\ status = "none"
  /\ result = NoResult
  /\ engine_calls = 0

Init == InitWith(Requests(Slots, TravelTables))

InitLongTravel == InitWith(Requests(LongTravelSlots, LongTravelTables))

OptimizerInit ==
  /\ pc = "request"
  /\ occurrences' = request.occurrences
  /\ travel_distances' = request.travel_distances
  /\ buffer_minutes' = request.buffer_minutes
  /\ pc' = "constructed"
  /\ UNCHANGED <<request, x, u, y, status, result, engine_calls>>

optimize ==
  /\ pc = "constructed"
  /\ \E sol \in Solve :
       /\ x' = sol.values.x
       /\ u' = sol.values.u
       /\ y' = sol.values.y
       /\ status' = sol.status
       /\ result' = Result(sol)
  /\ engine_calls' = engine_calls + 1
  /\ pc' = "returned"
  /\ UNCHANGED <<request, occurrences, travel_distances, buffer_minutes>>

Next == OptimizerInit \/ optimize

Spec == Init /\ [][Next]_vars

SpecLongTravel == InitLongTravel /\ [][Next]_vars

----------------------------------------------------------------------------
(* Notions the properties are stated in *)

Returned == pc = "returned"

IsOptimal == Returned /\ result.status = "Optimal"

ChosenSet == Range(result.chosen_occurrences)

KeysOfEvent(i) == {k \in Keys : occurrences[k].event = i}

(* position of key k in the list s (0 when absent) *)
Pos(s, k) == IF k \in Range(s) THEN CHOOSE i \in 1..Len(s) : s[i] = k ELSE 0

(* m may follow k on their common day *)
MayFollow(k, m) ==
  occurrences[m].start >=
    occurrences[k].end + travel_time(k, m) + buffer_minutes

Compatible(k, m) == MayFollow(k, m) \/ MayFollow(m, k)

(* one occurrence per event *)
Selections ==
  {{f[i] : i \in events} : f \in {g \in [events -> Keys] :
                                    \A i \in events : g[i] \in KeysOfEvent(i)}}

Admissible(S) ==
  \A k \in S : \A m \in S :
    (k # m /\ occurrences[k].day = occurrences[m].day) => Compatible(k, m)

AdmissibleSelections == {S \in Selections : Admissible(S)}

DaysOf(S) == {occurrences[k].day : k \in S}

Min(S) == CHOOSE m \in S : \A n \in S : m <= n

MinDays == Min({Cardinality(DaysOf(S)) : S \in AdmissibleSelections})

(* the data model of an occurrence: start < end, both inside its day *)
WellFormed(o) ==
  /\ o.start < o.end
  /\ t(o.day, 0) <= o.start
  /\ o.end <= t(o.day, DayLen)

ValidCatalogue == \A k \in Keys : WellFormed(occurrences[k])

HasInvalidOccurrence(occ) == \E k \in DOMAIN occ : occ[k].start >= occ[k].end

(* idle minutes between consecutive entries of one day's list *)
ListGap(s) ==
  SumOver(1..(Len(s) - 1),
          [i \in 1..(Len(s) - 1) |->
             occurrences[s[i + 1]].start - occurrences[s[i]].end])

IdleGap(sched) ==
  SumOver(DOMAIN sched, [d \in DOMAIN sched |-> ListGap(sched[d])])

(* idle minutes of a selection, each day taken in order of start time *)
SelectionGap(S) ==
  LET next(k) ==
        {m \in S : /\ occurrences[m].day = occurrences[k].day
                   /\ occurrences[m].start > occurrences[k].start
                   /\ \A n \in S :
                        (occurrences[n].day = occurrences[k].day
                           /\ occurrences[n].start > occurrences[k].start)
                        => occurrences[m].start <= occurrences[n].start}
  IN SumOver(S, [k \in S |->
                   IF next(k) = {} THEN 0
                   ELSE occurrences[CHOOSE m \in next(k) : TRUE].start
                          - occurrences[k].end])

MinDaySelections ==
  {S \in AdmissibleSelections : Cardinality(DaysOf(S)) = MinDays}

MinIdleGap == Min({SelectionGap(S) : S \in MinDaySelections})

----------------------------------------------------------------------------
(* C1: Coverage.  In every Optimal result each event id of the catalogue  *)
(* has exactly one of its occurrence keys in chosen_occurrences, no key   *)
(* is listed twice and no listed key is outside the catalogue.            *)
C1_Coverage ==
  IsOptimal =>
    /\ \A i \in events : Cardinality(KeysOfEvent(i) \cap ChosenSet) = 1
    /\ Cardinality(ChosenSet) = Len(result.chosen_occurrences)
    /\ ChosenSet \subseteq Keys

(* an Optimal result over an event with several candidate occurrences *)
C1_Witness ==
  /\ IsOptimal
  /\ \E i \in events : Cardinality(KeysOfEvent(i)) > 1
  /\ Cardinality(events) > 1

(* C2: Non-overlap.  In every Optimal result, any two keys a, b of        *)
(* schedule[d] with a listed before b satisfy                             *)
(* start(b) >= end(a) + travel(loc(a), loc(b)) + buffer_minutes, for      *)
(* every pair of the list and not only adjacent ones.                     *)
C2_NonOverlap ==
  IsOptimal =>
    \A d \in DOMAIN result.schedule :
      LET s == result.schedule[d]
      IN \A i \in 1..Len(s) : \A j \in (i + 1)..Len(s) : MayFollow(s[i], s[j])

(* the same property on catalogues whose occurrences all have start < end *)
C2_NonOverlapValid == ValidCatalogue => C2_NonOverlap

(* C3: Day count has strict first priority.  For catalogues with times    *)
(* inside one day, days_used of an Optimal result is the minimum number   *)
(* of distinct days over all admissible selections.                       *)
C3_DaysFirst ==
  (IsOptimal /\ ValidCatalogue) => result.days_used = MinDays

(* C4: Idle gap has strict second priority.  When the selection of an    *)
(* Optimal result uses the minimum number of days, its total idle gap     *)
(* between consecutive occurrences of each day's schedule is the minimum  *)
(* over the admissible selections that use that number of days: travel    *)
(* time never outweighs one minute of gap.                                *)
C4_GapSecond ==
  (IsOptimal /\ ValidCatalogue /\ ChosenSet \in MinDaySelections) =>
    IdleGap(result.schedule) = MinIdleGap

(* C5: days_used consistency.  In every returned result days_used equals  *)
(* the number of day keys of schedule.                                    *)
C5_DaysUsed ==
  Returned => result.days_used = Cardinality(DOMAIN result.schedule)

(* the same property on Optimal results only *)
C5_DaysUsedOptimal == IsOptimal => C5_DaysUsed

(* C6: Order validity.  In every Optimal result schedule[d] is a          *)
(* permutation of the chosen occurrences of day d, and whenever           *)
(* before[k,m] = 1 for two chosen occurrences of day d, k appears         *)
(* earlier than m in schedule[d].                                         *)
C6_OrderValid ==
  IsOptimal =>
    /\ \A d \in days :
         LET on == {k \in ChosenSet : occurrences[k].day = d}
         IN IF on = {} THEN d \notin DOMAIN result.schedule
            ELSE /\ d \in DOMAIN result.schedule
                 /\ Range(result.schedule[d]) = on
                 /\ Len(result.schedule[d]) = Cardinality(on)
    /\ \A p \in same_day_pairs :
         (y[p] = 1 /\ p[1] \in ChosenSet /\ p[2] \in ChosenSet) =>
           LET s == result.schedule[occurrences[p[1]].day]
           IN Pos(s, p[1]) < Pos(s, p[2])

(* the same property on catalogues whose occurrences all have start < end *)
C6_OrderValidValid == ValidCatalogue => C6_OrderValid

(* C7: Forced conflict.  When every selection of one occurrence per event *)
(* contains two same-day occurrences that are compatible in neither       *)
(* direction, optimize returns a result whose status is Infeasible.       *)
C7_ForcedConflict ==
  (Returned /\ AdmissibleSelections = {}) => result.status = "Infeasible"

(* two single-occurrence events in the same slot of the same day *)
C7_Witness ==
  /\ Returned
  /\ AdmissibleSelections = {}
  /\ \E k \in Keys : \E m \in Keys :
       /\ occurrences[k].event # occurrences[m].event
       /\ KeysOfEvent(occurrences[k].event) = {k}
       /\ KeysOfEvent(occurrences[m].event) = {m}
       /\ occurrences[k].day = occurrences[m].day
       /\ occurrences[k].start = occurrences[m].start
       /\ occurrences[k].end = occurrences[m].end
       /\ WellFormed(occurrences[k])
       /\ buffer_minutes = 60

(* C8: Empty schedule for non-Optimal statuses.  Whenever the returned    *)
(* status is not Optimal the returned schedule is the empty mapping.      *)
C8_EmptySchedule ==
  (Returned /\ result.status # "Optimal") => DOMAIN result.schedule = {}

(* C9: Input validation fails fast.  A catalogue holding an occurrence    *)
(* with start >= end never reaches the solving engine and never yields a  *)
(* normally returned result.                                              *)
C9_FailFast ==
  HasInvalidOccurrence(request.occurrences) =>
    /\ engine_calls = 0
    /\ ~Returned

(* C10: Big-M relaxation is vacuous.  For catalogues with times inside    *)
(* one day the time-feasibility constraint of every same-day pair holds   *)
(* when before[k,m] = 0, and optimize returns Optimal whenever an         *)
(* admissible selection exists.                                           *)
C10_BigMVacuous ==
  (Returned /\ ValidCatalogue) =>
    /\ \A p \in same_day_pairs :
         occurrences[p[2]].start >=
           occurrences[p[1]].end + travel_time(p[1], p[2]) + buffer_minutes - M
    /\ (AdmissibleSelections # {} => result.status = "Optimal")

====
